---- MODULE Spec2Model ----
(***************************************************************************)
(* A model of the notification senders (EmailSender, SlackSender) and of  *)
(* the YAML configuration parser (YAMLParser) of Ro-DOU.                  *)
(*                                                                         *)
(* Python values are represented as follows.                               *)
(*   - an ordered dict is a sequence of entries [k |-> key, v |-> value]   *)
(*     with pairwise distinct keys, in insertion order;                    *)
(*   - a list is a sequence;                                               *)
(*   - None is the string None where the other values are strings, and     *)
(*     the empty sequence where the other values are lists (the code only  *)
(*     tests such values for truthiness).                                  *)
(***************************************************************************)
EXTENDS Integers, Sequences, FiniteSets, TLC

VARIABLES
    \* ---- EmailSender -------------------------------------------------
    specs,              \* self.specs: the DAGConfig fields send reads
    search_report,      \* self.search_report
    epc,                \* position inside EmailSender.send
    skip_notification,  \* local of send
    content,            \* local of send (Unbound while never assigned)
    tmpfile,            \* the NamedTemporaryFile on disk
    csv_df,             \* the DataFrame written to the temporary file
    mail_calls,         \* the calls send made to send_email
    eoutcome,           \* how send ended
    \* ---- SlackSender -------------------------------------------------
    blocks,             \* self.blocks
    slack_report,       \* the search_report argument of the last send
    posted,             \* the payloads POSTed so far, one per send
    soutcome,           \* how the last send ended
    sendLimit,          \* how many notification cycles the sender lives
    \* ---- YAMLParser --------------------------------------------------
    filepath,           \* self.filepath, as its path segments
    doc,                \* the YAML document stored at filepath
    ppc,                \* position of the parser
    presult,            \* the DAGConfig parse returned
    perror,             \* the exception parse raised
    \* ---- YAMLParser._get_terms_params on its own ----------------------
    tsearch,            \* the search block
    tlookup,            \* what Variable.get answers
    tresult             \* the tuple returned, or the exception raised

evars == <<specs, search_report, epc, skip_notification, content, tmpfile,
           csv_df, mail_calls, eoutcome>>
svars == <<blocks, slack_report, posted, soutcome, sendLimit>>
pvars == <<filepath, doc, ppc, presult, perror>>
tvars == <<tsearch, tlookup, tresult>>
vars == <<evars, svars, pvars, tvars>>

\* ------------------------------------------------------------------------
\* Bounds of the model.
\* ------------------------------------------------------------------------
\* Size of an email report: blocks + headers + departments + groups + terms
\* + matches.
EMaxWeight == 6
\* Size of a Slack report: groups + terms + matches.
SMaxWeight == 5
\* Notification cycles one SlackSender lives through.
MaxSends == 2
\* Search blocks in a `search` list.
MaxSearch == 1
\* Length, in tokens, of an Airflow variable's value.
MaxVarLen == 4

\* ------------------------------------------------------------------------
\* The search report.
\* ------------------------------------------------------------------------
None == "None"
SingleGroup == "single_group"

\* Match records produced by the searchers: all five fields are strings.
Match(n) == [section |-> "secao" \o n, href |-> "http://dou/" \o n,
             title |-> "titulo" \o n, abstract |-> "resumo" \o n,
             date |-> "data" \o n]
Matches == {Match("1"), Match("2")}
Terms == {"lgpd", "dados"}
Groups == {SingleGroup, "grupoA"}
Headers == {None, "", "Consulta1"}
Departments == {<<>>, <<"Ministerio">>}

Keys(d) == {d[i].k : i \in 1..Len(d)}

MatchLists(n) == UNION {[1..k -> Matches] : k \in 0..n}

\* The ordered dicts term -> matches of size at most w over the terms avail.
RECURSIVE TermMaps(_, _)
TermMaps(w, avail) ==
    {<<>>} \cup
    IF w = 0 THEN {}
    ELSE UNION {{<<[k |-> e[1], v |-> e[2]]>> \o rest :
                    rest \in TermMaps(w - 1 - Len(e[2]), avail \ {e[1]})} :
                e \in avail \X MatchLists(w - 1)}

RECURSIVE TermMapWeight(_)
TermMapWeight(d) ==
    IF d = <<>> THEN 0 ELSE 1 + Len(d[1].v) + TermMapWeight(Tail(d))

\* The ordered dicts group -> (term -> matches) of size at most w.
RECURSIVE GroupMaps(_, _)
GroupMaps(w, avail) ==
    {<<>>} \cup
    IF w = 0 THEN {}
    ELSE UNION {{<<[k |-> e[1], v |-> e[2]]>> \o rest :
                    rest \in GroupMaps(w - 1 - TermMapWeight(e[2]), avail \ {e[1]})} :
                e \in avail \X TermMaps(w - 1, Terms)}

RECURSIVE GroupMapWeight(_)
GroupMapWeight(d) ==
    IF d = <<>> THEN 0 ELSE 1 + TermMapWeight(d[1].v) + GroupMapWeight(Tail(d))

BlockWeight(b) ==
    1 + (IF b.header = None THEN 0 ELSE 1) + Len(b.department)
      + GroupMapWeight(b.result)

SearchBlocks(w) ==
    IF w = 0 THEN {}
    ELSE {b \in [header : Headers, department : Departments,
                 result : GroupMaps(w - 1, Groups)] : BlockWeight(b) <= w}

\* The lists of search blocks of size at most w.
RECURSIVE Reports(_)
Reports(w) ==
    {<<>>} \cup
    UNION {{<<b>> \o rest : rest \in Reports(w - BlockWeight(b))} :
           b \in SearchBlocks(w)}

EmailReports == Reports(EMaxWeight)
SlackReports == GroupMaps(SMaxWeight, Groups)

\* ------------------------------------------------------------------------
\* EmailSender
\* ------------------------------------------------------------------------
Unbound == <<>>
NothingFound == << <<"Nenhum dos termos pesquisados foi encontrado.">> >>

\* Python truthiness of the values the senders test: a dict or a list, and a
\* string or None.
Truthy(x) == x # <<>>
TruthyStr(x) == x # "" /\ x # None

\* ["contains" for k, v in search["result"].items() if v]
ContainsItems(search) ==
    [i \in 1..Cardinality({j \in 1..Len(search.result) : Truthy(search.result[j].v)})
        |-> "contains"]

\* The loop at the head of send: skip_notification after the last block.
SkipNotification(report) ==
    \A i \in 1..Len(report) : ContainsItems(report[i]) = <<>>

\* The loop at the head of send: content after the last block.
LoopContent(report) ==
    IF \E i \in 1..Len(report) : ContainsItems(report[i]) = <<>>
    THEN NothingFound
    ELSE Unbound

\* The fragments one match contributes to the email.
ItemHtml(item) ==
    <<"<p secao-marker>", item.section, "### [", item.title, "](", item.href, ")",
      "<p abstract-marker>", item.abstract, "<p date-marker>", item.date>>

RECURSIVE ItemsBlocks(_)
ItemsBlocks(items) ==
    IF items = <<>> THEN <<>>
    ELSE <<ItemHtml(items[1])>> \o ItemsBlocks(Tail(items))

RECURSIVE TermsBlocks(_)
TermsBlocks(results) ==
    IF results = <<>> THEN <<>>
    ELSE << <<"\n">>, <<"* # Resultados para: ", results[1].k>> >>
         \o ItemsBlocks(results[1].v) \o TermsBlocks(Tail(results))

RECURSIVE GroupsBlocks(_)
GroupsBlocks(result) ==
    IF result = <<>> THEN <<>>
    ELSE (IF ~Truthy(result[1].v)
          THEN << <<"Nenhum dos termos pesquisados foi encontrado nesta consulta.">> >>
          ELSE (IF result[1].k # SingleGroup
                THEN << <<"\n">>, <<"**Grupo: ", result[1].k, "**">>, <<"\n\n">> >>
                ELSE <<>>)
               \o TermsBlocks(result[1].v))
         \o GroupsBlocks(Tail(result))

DepartmentBlocks(department) ==
    IF Truthy(department)
    THEN << <<"<p secao-marker>Filtrando resultados somente para:">>, <<"<ul>">> >>
         \o [i \in 1..Len(department) |-> <<"<li>", department[i]>>]
         \o << <<"</ul>">> >>
    ELSE <<>>

RECURSIVE SearchesBlocks(_)
SearchesBlocks(report) ==
    IF report = <<>> THEN <<>>
    ELSE (IF TruthyStr(report[1].header) THEN << <<"<h1>", report[1].header>> >> ELSE <<>>)
         \o DepartmentBlocks(report[1].department)
         \o GroupsBlocks(report[1].result)
         \o << <<"---">> >>
         \o SearchesBlocks(Tail(report))

\* markdown.markdown("\n".join(blocks)): the library's expansion keeps the
\* order of the fragments; the document is marked as its output.
Markdown(blks) == << <<"markdown">> >> \o blks

GenerateEmailContent(report) ==
    Markdown(<< <<"<style>">> >> \o SearchesBlocks(report))

RepackMatch(header, group, search_term, match) ==
    <<header, group, search_term, match.section, match.href, match.title,
      match.abstract, match.date>>

RECURSIVE TuplesOfMatches(_, _, _, _)
TuplesOfMatches(header, group, term, matches) ==
    IF matches = <<>> THEN <<>>
    ELSE <<RepackMatch(header, group, term, matches[1])>>
         \o TuplesOfMatches(header, group, term, Tail(matches))

RECURSIVE TuplesOfTerms(_, _, _)
TuplesOfTerms(header, group, results) ==
    IF results = <<>> THEN <<>>
    ELSE TuplesOfMatches(header, group, results[1].k, results[1].v)
         \o TuplesOfTerms(header, group, Tail(results))

RECURSIVE TuplesOfGroups(_, _)
TuplesOfGroups(header, result) ==
    IF result = <<>> THEN <<>>
    ELSE TuplesOfTerms(header, result[1].k, result[1].v)
         \o TuplesOfGroups(header, Tail(result))

RECURSIVE ConvertReportDictToTupleList(_)
ConvertReportDictToTupleList(report) ==
    IF report = <<>> THEN <<>>
    ELSE TuplesOfGroups(IF TruthyStr(report[1].header) THEN report[1].header ELSE None,
                        report[1].result)
         \o ConvertReportDictToTupleList(Tail(report))

CsvColumns == <<"Consulta", "Grupo", "Termo de pesquisa", "Secao", "URL",
                "Titulo", "Resumo", "Data">>

\* pd.DataFrame(list of tuples): the frame has as many columns as the tuples
\* have fields, and none when the list is empty.
DataFrame(tuples) ==
    [ncols |-> IF tuples = <<>> THEN 0 ELSE Len(tuples[1]), rows |-> tuples]

\* del df[name]
DelColumn(df, name) ==
    LET keep == {i \in 1..Len(df.columns) : df.columns[i] # name}
        Pick(s) == LET F[i \in 0..Len(s)] ==
                           IF i = 0 THEN <<>>
                           ELSE IF i \in keep THEN Append(F[i - 1], s[i]) ELSE F[i - 1]
                   IN F[Len(s)]
    IN [columns |-> Pick(df.columns),
        rows |-> [r \in 1..Len(df.rows) |-> Pick(df.rows[r])]]

\* convert_report_to_dataframe: df.columns = [...] raises ValueError (Length
\* mismatch) unless the frame has the eight columns.
ConvertReportToDataframe(report) ==
    LET df == DataFrame(ConvertReportDictToTupleList(report))
        del_header == \A i \in 1..Len(report) : report[i].header = None
        del_single_group == \E i \in 1..Len(report) : SingleGroup \in Keys(report[i].result)
        named == [columns |-> CsvColumns, rows |-> df.rows]
        d1 == IF del_header THEN DelColumn(named, "Consulta") ELSE named
        d2 == IF del_single_group THEN DelColumn(d1, "Grupo") ELSE d1
    IN IF df.ncols # Len(CsvColumns)
       THEN [raised |-> "ValueError", columns |-> <<>>, rows |-> <<>>]
       ELSE [raised |-> None, columns |-> d2.columns, rows |-> d2.rows]

\* A variant of AttachCsvPath that forgets the attach_csv flag.
AttachCsvPathIgnoringFlag(sp, skip) == skip = FALSE

\* The condition of line 44: the CSV is built and attached.
AttachCsvPath(sp, skip) == sp.attach_csv /\ skip = FALSE

NoDf == [raised |-> None, columns |-> <<>>, rows |-> <<>>]

EmailIdle ==
    /\ search_report = <<>>
    /\ epc = "idle"
    /\ skip_notification = TRUE
    /\ content = Unbound
    /\ tmpfile = "none"
    /\ csv_df = NoDf
    /\ mail_calls = <<>>
    /\ eoutcome = "none"

\* EmailSender(specs): the sender is built once per notification cycle.
EmailInit ==
    /\ specs \in [skip_null : BOOLEAN, attach_csv : BOOLEAN]
    /\ EmailIdle

EmailOff ==
    /\ specs = [skip_null |-> TRUE, attach_csv |-> FALSE]
    /\ EmailIdle

\* send, from its entry to its first call outside (lines 27-45 and 54).
Send(report) ==
    /\ epc = "idle"
    /\ search_report' = report
    /\ LET skip == SkipNotification(report)
           looped == LoopContent(report)
           body == IF skip THEN looped ELSE GenerateEmailContent(report)
       IN /\ skip_notification' = skip
          /\ IF skip /\ specs.skip_null
             THEN /\ content' = looped
                  /\ epc' = "done"
                  /\ eoutcome' = "skip_notification"
             ELSE /\ content' = body
                  /\ IF AttachCsvPath(specs, skip)
                     THEN epc' = "get_csv_tempfile" /\ eoutcome' = "none"
                     ELSE IF body = Unbound
                          THEN epc' = "done" /\ eoutcome' = "UnboundLocalError"
                          ELSE epc' = "send_email" /\ eoutcome' = "none"
    /\ UNCHANGED <<specs, tmpfile, csv_df, mail_calls>>

\* get_csv_tempfile: the file is created, then the frame is built and
\* written.  When building raises, nothing closes the file: it is removed
\* when the garbage collector finalises it, before or after send has raised.
GetCsvTempfile ==
    /\ epc = "get_csv_tempfile"
    /\ LET df == ConvertReportToDataframe(search_report)
       IN /\ csv_df' = df
          /\ IF df.raised = None
             THEN /\ tmpfile' = "exists"
                  /\ epc' = "send_email"
                  /\ eoutcome' = "none"
             ELSE /\ tmpfile' \in {"exists", "deleted"}
                  /\ epc' = "done"
                  /\ eoutcome' = df.raised
    /\ UNCHANGED <<specs, search_report, skip_notification, content, mail_calls>>

\* The call of send_email, which succeeds or raises, and the end of the
\* `with` block around it, which closes (and so deletes) the file.
SendEmail(ok) ==
    /\ epc = "send_email"
    /\ mail_calls' = Append(mail_calls,
                            [html_content |-> content,
                             files |-> IF tmpfile = "none" THEN <<>> ELSE <<csv_df>>,
                             file_on_disk |-> tmpfile = "exists"])
    /\ tmpfile' = IF tmpfile = "none" THEN "none" ELSE "deleted"
    /\ epc' = "done"
    /\ eoutcome' = IF ok THEN "returned" ELSE "DeliveryError"
    /\ UNCHANGED <<specs, search_report, skip_notification, content, csv_df>>

\* ------------------------------------------------------------------------
\* SlackSender
\* ------------------------------------------------------------------------
\* A block-kit block, reduced to the fields that vary: its type, its text
\* and the url of its button (None when it has no button).
Block(type, text, url) == [type |-> type, text |-> text, url |-> url]

\* _add_header
AddHeader(blks, text) == Append(blks, Block("header", text, None))

\* A variant of _add_block that forgets the divider.
AddBlockNoDivider(blks, item) ==
    blks \o <<Block("section", item.title, None),
              Block("section", item.abstract, None),
              Block("section", "Publicado em: 15/03/2023", item.href)>>

\* _add_block
AddBlock(blks, item) ==
    blks \o <<Block("section", item.title, None),
              Block("section", item.abstract, None),
              Block("section", "Publicado em: 15/03/2023", item.href),
              Block("divider", None, None)>>

\* for item in items: self._add_block(item)
RECURSIVE AddItems(_, _)
AddItems(blks, items) ==
    IF items = <<>> THEN blks
    ELSE AddItems(AddBlock(blks, items[1]), Tail(items))

\* for term, items in results.items(): ...
RECURSIVE AddTerms(_, _)
AddTerms(blks, results) ==
    IF results = <<>> THEN blks
    ELSE AddTerms(IF Truthy(results[1].v)
                  THEN AddItems(AddHeader(blks, "Termo: " \o results[1].k), results[1].v)
                  ELSE blks,
                  Tail(results))

\* Whether send adds a header for the group.
GroupHasHeader(group) == group # SingleGroup

\* for group, results in search_report.items(): ...
RECURSIVE AddGroups(_, _)
AddGroups(blks, report) ==
    IF report = <<>> THEN blks
    ELSE AddGroups(AddTerms(IF GroupHasHeader(report[1].k)
                            THEN AddHeader(blks, "Grupo: " \o report[1].k)
                            ELSE blks,
                            report[1].v),
                   Tail(report))

SlackFresh ==
    /\ blocks = <<>>
    /\ slack_report = <<>>
    /\ posted = <<>>
    /\ soutcome = "none"

\* SlackSender(specs), used for one notification cycle.
SlackInit == SlackFresh /\ sendLimit = 1

\* SlackSender(specs), kept over several notification cycles.
SlackCyclesInit == SlackFresh /\ sendLimit = MaxSends

SlackOff == SlackFresh /\ sendLimit = 0

\* send and the _flush that ends it: the POST answers 2xx or not, and
\* raise_for_status raises in the second case.
SlackSend(report, ok) ==
    /\ Len(posted) < sendLimit
    /\ slack_report' = report
    /\ blocks' = AddGroups(blocks, report)
    /\ posted' = Append(posted, [blocks |-> blocks'])
    /\ soutcome' = IF ok THEN "returned" ELSE "HTTPError"
    /\ UNCHANGED sendLimit

\* ------------------------------------------------------------------------
\* YAML and Python values
\* ------------------------------------------------------------------------
\* A value carries its Python type t (none, str, bool, int, list, tuple,
\* dict) and, in the field of that type, what it holds: the string s, the
\* boolean b, the number n, the items xs, or the function d from keys to
\* values.  A multi-line string is given by its lines xs, each a string s
\* after an indentation n.
Val(t, s, b, n, xs, d) == [t |-> t, s |-> s, b |-> b, n |-> n, xs |-> xs, d |-> d]
EmptyDict == [x \in {} |-> x]
YNone == Val("none", "", FALSE, 0, <<>>, EmptyDict)
Str(x) == Val("str", x, FALSE, 0, <<>>, EmptyDict)
Bool(x) == Val("bool", "", x, 0, <<>>, EmptyDict)
Number(x) == Val("int", "", FALSE, x, <<>>, EmptyDict)
List(x) == Val("list", "", FALSE, 0, x, EmptyDict)
Tuple(x) == Val("tuple", "", FALSE, 0, x, EmptyDict)
Dict(x) == Val("dict", "", FALSE, 0, <<>>, x)
Line(indent, text) == Val("str", text, FALSE, indent, <<>>, EmptyDict)
Text(lines) == Val("str", "", FALSE, 0, lines, EmptyDict)

\* bool(value), for the values the parser tests.
TruthyValue(x) ==
    CASE x.t = "none" -> FALSE
      [] x.t = "str" -> x.s # "" \/ x.xs # <<>>
      [] x.t = "bool" -> x.b
      [] x.t = "int" -> x.n # 0
      [] x.t = "dict" -> DOMAIN x.d # {}
      [] OTHER -> x.xs # <<>>

\* mapping.get(key, default)
Get(m, key, default) == IF key \in DOMAIN m.d THEN m.d[key] ELSE default

\* An exception: its type, the parts of its message, the line that raised.
Exc(type, msg, line) == [type |-> type, msg |-> msg, line |-> line]
NoExc == Exc("none", <<>>, 0)

\* ------------------------------------------------------------------------
\* ast.literal_eval and str.splitlines on an Airflow variable's value
\* ------------------------------------------------------------------------
\* The value is a sequence of tokens; the string is their concatenation.
LB == "["
RB == "]"
CM == ","
QA == "'a'"
WA == "a"
NL == "\n"
Tokens == {LB, RB, CM, QA, WA, NL}
VarValues == UNION {[1..n -> Tokens] : n \in 0..MaxVarLen}

RECURSIVE SkipNL(_, _)
SkipNL(s, i) == IF i <= Len(s) /\ s[i] = NL THEN SkipNL(s, i + 1) ELSE i

RECURSIVE Repeat(_, _)
Repeat(x, n) == IF n = 0 THEN "" ELSE x \o Repeat(x, n - 1)

\* Adjacent string literals, which Python concatenates; inside brackets
\* line breaks between them are ignored.
RECURSIVE StringRun(_, _, _)
StringRun(s, i, nested) ==
    LET j == IF nested THEN SkipNL(s, i) ELSE i
    IN IF j <= Len(s) /\ s[j] = QA
       THEN LET r == StringRun(s, j + 1, nested)
            IN [n |-> r.n + 1, next |-> r.next]
       ELSE [n |-> 0, next |-> i]

ParseFail == [ok |-> FALSE, val |-> YNone, next |-> 0]
Parsed(val, next) == [ok |-> TRUE, val |-> val, next |-> next]

\* One expression of the literal grammar from position i: a string, or a
\* list display.  A name (WA) parses but is no literal, and anything else is
\* a syntax error: literal_eval raises in both cases.
RECURSIVE ParseExpr(_, _, _)
RECURSIVE ParseItems(_, _, _, _)
ParseExpr(s, i0, depth) ==
    LET i == IF depth > 0 THEN SkipNL(s, i0) ELSE i0
    IN IF i > Len(s) THEN ParseFail
       ELSE IF s[i] = QA
            THEN LET r == StringRun(s, i, depth > 0)
                 IN Parsed(Str(Repeat("a", r.n)), r.next)
       ELSE IF s[i] = LB
            THEN LET j == SkipNL(s, i + 1)
                 IN IF j <= Len(s) /\ s[j] = RB
                    THEN Parsed(List(<<>>), j + 1)
                    ELSE ParseItems(s, j, depth + 1, <<>>)
       ELSE ParseFail
ParseItems(s, i, depth, acc) ==
    LET r == ParseExpr(s, i, depth)
    IN IF ~r.ok THEN ParseFail
       ELSE LET items == Append(acc, r.val)
                j == SkipNL(s, r.next)
            IN IF j > Len(s) THEN ParseFail
               ELSE IF s[j] = RB THEN Parsed(List(items), j + 1)
               ELSE IF s[j] # CM THEN ParseFail
               ELSE LET k == SkipNL(s, j + 1)
                    IN IF k <= Len(s) /\ s[k] = RB
                       THEN Parsed(List(items), k + 1)
                       ELSE ParseItems(s, k, depth, items)

\* The rest of a top-level tuple, from a comma at position i.
RECURSIVE ParseTupleRest(_, _, _)
ParseTupleRest(s, i, acc) ==
    IF i <= Len(s) /\ s[i] = CM
    THEN IF i + 1 > Len(s) \/ s[i + 1] = NL
         THEN Parsed(Tuple(acc), i + 1)
         ELSE LET r == ParseExpr(s, i + 1, 0)
              IN IF ~r.ok THEN ParseFail
                 ELSE ParseTupleRest(s, r.next, Append(acc, r.val))
    ELSE Parsed(Tuple(acc), i)

\* ast.literal_eval(var_value): ok is FALSE when it raises ValueError or
\* SyntaxError.
LiteralEval(s) ==
    LET r == ParseExpr(s, SkipNL(s, 1), 0)
    IN IF ~r.ok THEN ParseFail
       ELSE LET t == IF r.next <= Len(s) /\ s[r.next] = CM
                     THEN ParseTupleRest(s, r.next, <<r.val>>)
                     ELSE r
            IN IF ~t.ok THEN ParseFail
               ELSE IF SkipNL(s, t.next) # Len(s) + 1 THEN ParseFail
               ELSE t

\* var_value.splitlines(): the lines, as a list of strings.
SplitLines(s) ==
    LET F[i \in 0..Len(s)] ==
            IF i = 0 THEN [done |-> <<>>, cur |-> "", open |-> FALSE]
            ELSE IF s[i] = NL
                 THEN [done |-> Append(F[i - 1].done, Str(F[i - 1].cur)),
                       cur |-> "", open |-> FALSE]
                 ELSE [done |-> F[i - 1].done, cur |-> F[i - 1].cur \o s[i],
                       open |-> TRUE]
        last == F[Len(s)]
    IN List(IF last.open THEN Append(last.done, Str(last.cur)) ELSE last.done)

\* ------------------------------------------------------------------------
\* YAMLParser
\* ------------------------------------------------------------------------
\* self.filepath.split("/")[-1], the path being its segments and slashes.
FileName(fp) ==
    LET F[i \in 0..Len(fp)] ==
            IF i = 0 THEN <<"">>
            ELSE IF fp[i] = "/" THEN Append(F[i - 1], "")
                 ELSE [F[i - 1] EXCEPT ![Len(F[i - 1])] = @ \o fp[i]]
    IN F[Len(fp)][Len(F[Len(fp)])]

Returned(val) == [raised |-> NoExc, val |-> val]
Raised(exc) == [raised |-> exc, val |-> YNone]

\* _try_get (no caller passes error_msg)
TryGet(variable, field, fp) ==
    IF variable.t # "dict"
    THEN Raised(Exc("TypeError", <<"object is not subscriptable">>, 194))
    ELSE IF field \in DOMAIN variable.d
         THEN Returned(variable.d[field])
         ELSE Raised(Exc("ValueError",
                         <<"Erro no arquivo ", FileName(fp), ": ",
                           "O campo ", field, " e obrigatorio.">>, 200))

TermsParams(terms, sql, conn_id) ==
    [raised |-> NoExc, terms |-> terms, sql |-> sql, conn_id |-> conn_id]
TermsRaised(exc) ==
    [raised |-> exc, terms |-> YNone, sql |-> YNone, conn_id |-> YNone]

\* try: literal_eval(var_value) / except: var_value.splitlines(), lit being
\* what literal_eval did.
EvalOrSplit(var_value, lit) == IF lit.ok THEN lit.val ELSE SplitLines(var_value)

\* The from_airflow_variable branch: lookup is what Variable.get answers
\* for the name, found = FALSE when the variable does not exist.
FromAirflowVariable(terms, lookup) ==
    IF ~lookup.found
    THEN TermsRaised(Exc("KeyError", <<"Variable does not exist">>, 172))
    ELSE TermsParams(EvalOrSplit(lookup.value, LiteralEval(lookup.value)),
                     YNone, YNone)

\* The from_db_select branch.
FromDbSelect(terms, fp) ==
    LET from_db_select == Get(terms, "from_db_select", YNone)
        sql == TryGet(from_db_select, "sql", fp)
        conn_id == TryGet(from_db_select, "conn_id", fp)
    IN IF sql.raised # NoExc THEN TermsRaised(sql.raised)
       ELSE IF conn_id.raised # NoExc THEN TermsRaised(conn_id.raised)
       ELSE TermsParams(List(<<>>), sql.val, conn_id.val)

\* _get_terms_params
GetTermsParams(search, lookup, fp) ==
    LET got == TryGet(search, "terms", fp)
        terms == got.val
    IN IF got.raised # NoExc THEN TermsRaised(got.raised)
       ELSE IF terms.t = "dict"
            THEN IF "from_airflow_variable" \in DOMAIN terms.d
                 THEN FromAirflowVariable(terms, lookup)
                 ELSE IF "from_db_select" \in DOMAIN terms.d
                      THEN FromDbSelect(terms, fp)
                      ELSE TermsRaised(Exc("ValueError",
                               <<"O campo ", "terms", " aceita como valores validos ",
                                 "uma lista de strings ou parametros do tipo ",
                                 "from_airflow_variable ou from_db_select.">>, 183))
            ELSE TermsParams(terms, YNone, YNone)

\* The body of the loop over the search blocks, tp being what
\* _get_terms_params did for the block.
ProcSubsearch(subsearch, tp) ==
    IF tp.raised # NoExc THEN Raised(tp.raised)
    ELSE Returned(
    [header |-> Get(subsearch, "header", YNone),
     sources |-> Get(subsearch, "sources", List(<<Str("DOU")>>)),
     terms |-> tp.terms,
     sql |-> tp.sql,
     conn_id |-> tp.conn_id,
     territory_id |-> Get(subsearch, "territory_id", YNone),
     dou_sections |-> Get(subsearch, "dou_sections", List(<<Str("TODOS")>>)),
     search_date |-> Get(subsearch, "date", Str("DIA")),
     field |-> Get(subsearch, "field", Str("TUDO")),
     is_exact_search |-> Get(subsearch, "is_exact_search", Bool(TRUE)),
     ignore_signature_match |-> Get(subsearch, "ignore_signature_match", Bool(FALSE)),
     force_rematch |-> Get(subsearch, "force_rematch", YNone),
     full_text |-> Get(subsearch, "full_text", YNone),
     use_summary |-> Get(subsearch, "use_summary", YNone),
     department |-> Get(subsearch, "department", YNone)])

\* The loop's outcome from the outcomes of its iterations: the first
\* exception leaves the loop, otherwise every block was appended.
ProcLoop(steps) ==
    LET failed == {i \in 1..Len(steps) : steps[i].raised # NoExc}
    IN IF failed # {}
       THEN steps[CHOOSE i \in failed : \A j \in failed : i <= j]
       ELSE Returned([i \in 1..Len(steps) |-> steps[i].val])

\* for subsearch in search: ...
ProcSearch(search, lookup, fp) ==
    ProcLoop([i \in 1..Len(search) |->
                 ProcSubsearch(search[i], GetTermsParams(search[i], lookup, fp))])

\* report[key]["webhook"] if report.get(key) else None
Webhook(report, key, line) ==
    LET parent == Get(report, key, YNone)
    IN IF ~TruthyValue(parent) THEN Returned(YNone)
       ELSE IF parent.t # "dict"
            THEN Raised(Exc("TypeError", <<"string indices must be integers">>, line))
            ELSE IF "webhook" \in DOMAIN parent.d
                 THEN Returned(parent.d["webhook"])
                 ELSE Raised(Exc("KeyError", <<"webhook">>, line))

\* ", ".join(owners)
RECURSIVE JoinComma(_)
JoinComma(xs) ==
    IF xs = <<>> THEN ""
    ELSE IF Len(xs) = 1 THEN xs[1].s
    ELSE xs[1].s \o ", " \o JoinComma(Tail(xs))

\* textwrap.dedent on a text given as its lines, each an indentation and
\* the text after it: the common indentation is removed.
Dedent(text) ==
    LET lines == text.xs
        margin == CHOOSE m \in {lines[i].n : i \in 1..Len(lines)} :
                      \A i \in 1..Len(lines) : m <= lines[i].n
    IN Text([i \in 1..Len(lines) |-> Line(lines[i].n - margin, lines[i].s)])

NoConfig == [none |-> TRUE]

\* _parse_yaml
ParseYaml(fp, d, lookup) ==
    LET dag == TryGet(d, "dag", fp)
        dag_id == TryGet(dag.val, "id", fp)
        description == TryGet(dag.val, "description", fp)
        report == TryGet(dag.val, "report", fp)
        search == TryGet(dag.val, "search", fp)
        search_list == IF search.val.t # "list" THEN <<search.val>> ELSE search.val.xs
        proc_search == ProcSearch(search_list, lookup, fp)
        discord_webhook == Webhook(report.val, "discord", 119)
        slack_webhook == Webhook(report.val, "slack", 121)
        doc_md == Get(dag.val, "doc_md", YNone)
        dag_tags == Get(dag.val, "tags", List(<<>>)).xs \o <<Str("dou"), Str("generated_dag")>>
        Fail(e) == [raised |-> e, config |-> NoConfig]
    IN IF dag.raised # NoExc THEN Fail(dag.raised)
       ELSE IF dag_id.raised # NoExc THEN Fail(dag_id.raised)
       ELSE IF description.raised # NoExc THEN Fail(description.raised)
       ELSE IF report.raised # NoExc THEN Fail(report.raised)
       ELSE IF search.raised # NoExc THEN Fail(search.raised)
       ELSE IF proc_search.raised # NoExc THEN Fail(proc_search.raised)
       ELSE IF discord_webhook.raised # NoExc THEN Fail(discord_webhook.raised)
       ELSE IF slack_webhook.raised # NoExc THEN Fail(slack_webhook.raised)
       ELSE [raised |-> NoExc,
             config |->
               [dag_id |-> dag_id.val,
                search |-> proc_search.val,
                emails |-> Get(report.val, "emails", YNone),
                subject |-> Get(report.val, "subject", Str("Extracao do DOU")),
                attach_csv |-> Get(report.val, "attach_csv", Bool(FALSE)),
                discord_webhook |-> discord_webhook.val,
                slack_webhook |-> slack_webhook.val,
                schedule |-> Get(dag.val, "schedule", YNone),
                dataset |-> Get(dag.val, "dataset", YNone),
                description |-> description.val,
                skip_null |-> Get(report.val, "skip_null", Bool(TRUE)),
                doc_md |-> IF TruthyValue(doc_md) THEN Dedent(doc_md) ELSE doc_md,
                dag_tags |-> {dag_tags[i].s : i \in 1..Len(dag_tags)},
                owner |-> JoinComma(Get(dag.val, "owner", List(<<>>)).xs),
                hide_filters |-> Get(report.val, "hide_filters", Bool(FALSE)),
                header_text |-> Get(report.val, "header_text", YNone),
                footer_text |-> Get(report.val, "footer_text", YNone),
                no_results_found_text |->
                    Get(report.val, "no_results_found_text",
                        Str("Nenhum dos termos pesquisados foi encontrado nesta consulta"))]]

\* ------------------------------------------------------------------------
\* The configuration documents and the variable store
\* ------------------------------------------------------------------------
\* The dicts with the key or without it.
Opt(key, values) == {EmptyDict} \cup {key :> x : x \in values}

Found(value) == [found |-> TRUE, value |-> value]
Missing == [found |-> FALSE, value |-> <<>>]
\* What Variable.get may answer, for _get_terms_params on its own.
Lookups == {Missing} \cup {Found(x) : x \in VarValues}
\* What Variable.get may answer, for parse: no such variable, a list
\* literal, one term per line.
SampleLookups == {Missing, Found(<<LB, QA, CM, QA, RB>>), Found(<<WA, NL, WA>>)}

DbSelects ==
    {Dict(a @@ b) : a \in Opt("sql", {Str("SELECT termo FROM termos")}),
                    b \in Opt("conn_id", {Str("conexao_db")})}

\* The values of `terms`: a list, the two indirections (complete or not),
\* and mappings of other shapes.
TermsValues ==
    {List(<<Str("lgpd"), Str("dados pessoais")>>),
     Dict("from_airflow_variable" :> Str("termos_var")),
     Dict("from_db_select" :> Str("SELECT termo FROM termos")),
     Dict("from_variable" :> Str("termos_var")),
     Dict("from_airflow_variable" :> Str("termos_var")
          @@ "from_db_select" :> Dict("sql" :> Str("SELECT termo FROM termos")
                                      @@ "conn_id" :> Str("conexao_db")))}
    \cup {Dict("from_db_select" :> x) : x \in DbSelects}

\* A document gives none of the optional fields, or all of them.
Profiles == {"bare", "full"}

\* The optional fields of a search block.
SubsearchOptions(profile) ==
    IF profile = "bare" THEN EmptyDict
    ELSE "header" :> Str("Consulta1") @@ "sources" :> List(<<Str("QD")>>)
         @@ "territory_id" :> Number(4205407) @@ "dou_sections" :> List(<<Str("SECAO_1")>>)
         @@ "date" :> Str("MES") @@ "field" :> Str("TITULO")
         @@ "is_exact_search" :> Bool(FALSE) @@ "ignore_signature_match" :> Bool(TRUE)
         @@ "force_rematch" :> Bool(TRUE) @@ "full_text" :> Bool(TRUE)
         @@ "use_summary" :> Bool(TRUE) @@ "department" :> List(<<Str("Ministerio")>>)

Subsearches(profile) ==
    {Dict(a @@ SubsearchOptions(profile)) : a \in Opt("terms", TermsValues)}

\* `search`: one block (the old structure) or a list of blocks.
SearchValues(profile) ==
    Subsearches(profile)
    \cup {List(x) : x \in UNION {[1..n -> Subsearches(profile)] : n \in 0..MaxSearch}}

\* `discord` and `slack`: empty, with the webhook, without it, or a bare
\* string.
WebhookParents ==
    {Dict(EmptyDict), Dict("webhook" :> Str("https://hooks/abc")),
     Dict("url" :> Str("https://hooks/abc")), Str("https://hooks/abc")}

ReportOptions(profile) ==
    IF profile = "bare" THEN EmptyDict
    ELSE "emails" :> List(<<Str("a@b.gov.br")>>) @@ "subject" :> Str("Assunto")
         @@ "attach_csv" :> Bool(TRUE) @@ "skip_null" :> Bool(FALSE)
         @@ "hide_filters" :> Bool(TRUE) @@ "header_text" :> Str("Cabecalho")
         @@ "footer_text" :> Str("Rodape") @@ "no_results_found_text" :> Str("Nada")

ReportValues(profile) ==
    {Dict(a @@ b @@ ReportOptions(profile)) :
        a \in Opt("discord", WebhookParents), b \in Opt("slack", WebhookParents)}

DagOptions(profile) ==
    IF profile = "bare" THEN EmptyDict
    ELSE "owner" :> List(<<Str("fulano"), Str("sicrano")>>)
         @@ "schedule" :> Str("0 8 * * *") @@ "dataset" :> Str("inlabs")
         @@ "doc_md" :> Text(<<Line(4, "Titulo"), Line(6, "texto")>>)
         @@ "tags" :> List(<<Str("dou"), Str("lgpd")>>)

DagValues(profile) ==
    {Dict(a @@ b @@ c @@ e @@ DagOptions(profile)) :
        a \in Opt("id", {Str("exemplo_dag")}),
        b \in Opt("description", {Str("DAG de exemplo")}),
        c \in Opt("report", ReportValues(profile)),
        e \in Opt("search", SearchValues(profile))}

\* What yaml.safe_load may return: None for an empty file, or a mapping.
Docs(profiles) ==
    {YNone} \cup {Dict(a) : a \in Opt("dag", UNION {DagValues(p) : p \in profiles})}

FilePaths == {<<"exemplo.yaml">>, <<"dags", "/", "ro_dou", "/", "exemplo.yaml">>}

\* ------------------------------------------------------------------------
\* The parser's states and steps
\* ------------------------------------------------------------------------
ParserOff ==
    /\ filepath = <<>>
    /\ doc = YNone
    /\ ppc = "off"
    /\ presult = NoConfig
    /\ perror = NoExc

\* YAMLParser(filepath), the file holding some document.
ParserInit ==
    /\ filepath \in FilePaths
    /\ doc \in Docs(Profiles)
    /\ ppc = "idle"
    /\ presult = NoConfig
    /\ perror = NoExc

TermsOff ==
    /\ tsearch = YNone
    /\ tlookup = Missing
    /\ tresult = TermsRaised(Exc("off", <<>>, 0))

\* parse
Parse(lookup) ==
    /\ ppc = "idle"
    /\ LET r == ParseYaml(filepath, doc, lookup)
       IN /\ presult' = r.config
          /\ perror' = r.raised
    /\ ppc' = "done"
    /\ tlookup' = lookup
    /\ UNCHANGED <<filepath, doc, tsearch, tresult>>

\* A search block and the variable store, before _get_terms_params runs.
TermsInit ==
    /\ filepath = <<"dags", "/", "exemplo.yaml">>
    /\ doc = YNone
    /\ ppc = "off"
    /\ presult = NoConfig
    /\ perror = NoExc
    /\ tsearch \in UNION {Subsearches(p) : p \in Profiles}
    /\ tlookup \in Lookups
    /\ tresult = TermsRaised(Exc("pending", <<>>, 0))

\* The call of _get_terms_params on the block.
ResolveTerms ==
    /\ tresult.raised.type = "pending"
    /\ tresult' = GetTermsParams(tsearch, tlookup, filepath)
    /\ UNCHANGED <<pvars, tsearch, tlookup>>

\* ------------------------------------------------------------------------
\* Specifications
\* ------------------------------------------------------------------------
\* One EmailSender, built for one notification cycle.
InitEmail == EmailInit /\ SlackOff /\ ParserOff /\ TermsOff
NextEmail ==
    \/ /\ epc = "idle"
       /\ \E report \in EmailReports : Send(report) /\ UNCHANGED <<svars, pvars, tvars>>
    \/ GetCsvTempfile /\ UNCHANGED <<svars, pvars, tvars>>
    \/ \E ok \in BOOLEAN : SendEmail(ok) /\ UNCHANGED <<svars, pvars, tvars>>
SpecEmail == InitEmail /\ [][NextEmail]_vars

\* One fresh SlackSender, used for one notification cycle.
InitSlack == EmailOff /\ SlackInit /\ ParserOff /\ TermsOff
NextSlack ==
    \E report \in SlackReports, ok \in BOOLEAN :
        SlackSend(report, ok) /\ UNCHANGED <<evars, pvars, tvars>>
SpecSlack == InitSlack /\ [][NextSlack]_vars

\* One SlackSender kept over MaxSends notification cycles.
InitSlackCycles == EmailOff /\ SlackCyclesInit /\ ParserOff /\ TermsOff
SpecSlackCycles == InitSlackCycles /\ [][NextSlack]_vars

\* One YAMLParser and one call of parse.
InitParse == EmailOff /\ SlackOff /\ ParserInit /\ TermsOff
NextParse ==
    \E lookup \in SampleLookups : Parse(lookup) /\ UNCHANGED <<evars, svars>>
SpecParse == InitParse /\ [][NextParse]_vars

\* _get_terms_params applied to one search block.
InitTerms == EmailOff /\ SlackOff /\ TermsInit
NextTerms == ResolveTerms /\ UNCHANGED <<evars, svars>>
SpecTerms == InitTerms /\ [][NextTerms]_vars

\* ------------------------------------------------------------------------
\* Claims about EmailSender (checked under SpecEmail)
\* ------------------------------------------------------------------------
\* No term of any group of any block of the report has a match.
AllMatchListsEmpty(report) ==
    \A i \in 1..Len(report) :
        \A j \in 1..Len(report[i].result) :
            \A t \in 1..Len(report[i].result[j].v) :
                report[i].result[j].v[t].v = <<>>

\* Some group of some block of the report holds at least one term.
SomeGroupHasTerms(report) ==
    \E i \in 1..Len(report) :
        \E j \in 1..Len(report[i].result) : report[i].result[j].v # <<>>

RECURSIVE Flatten(_)
Flatten(ss) == IF ss = <<>> THEN <<>> ELSE ss[1] \o Flatten(Tail(ss))

\* The matches of the report, in traversal order.
MatchesOf(report) ==
    Flatten([i \in 1..Len(report) |->
        Flatten([j \in 1..Len(report[i].result) |->
            Flatten([t \in 1..Len(report[i].result[j].v) |->
                report[i].result[j].v[t].v])])])

\* C1: once send has been called with skip_null = true on a report in which
\* every match list of every term of every group of every block is empty, it
\* has returned "skip_notification" and send_email was not called.
C1_EmptyReportIsSkipped ==
    (epc # "idle" /\ specs.skip_null /\ AllMatchListsEmpty(search_report))
        => (epc = "done" /\ eoutcome = "skip_notification" /\ mail_calls = <<>>)

\* C2: when send has ended with skip_null = false on an empty report (zero
\* blocks included), it called send_email exactly once, with the fixed
\* nothing-found message as the body, and did not fail before that call.
C2_EmptyReportSendsNothingFound ==
    (epc = "done" /\ ~specs.skip_null /\ AllMatchListsEmpty(search_report))
        => /\ Len(mail_calls) = 1
           /\ mail_calls[1].html_content = NothingFound
           /\ eoutcome \in {"returned", "DeliveryError"}

\* C4: on the CSV path the temporary file is on disk when send_email is
\* called, and whenever send has ended (return or exception, the failure to
\* build the CSV included) a temporary file that was created is deleted.
C4_TempFileIsScoped ==
    /\ \A i \in 1..Len(mail_calls) :
           mail_calls[i].files # <<>> => mail_calls[i].file_on_disk
    /\ epc = "done" => tmpfile \in {"none", "deleted"}

\* C5 as stated: every call of send_email made with attach_csv = true
\* carries the CSV attachment, empty reports sent with skip_null = false
\* included.
C5_AttachCsvAlwaysAttaches ==
    \A i \in 1..Len(mail_calls) :
        specs.attach_csv => mail_calls[i].files # <<>>

\* C5 amended: a call of send_email carries the CSV attachment if and only
\* if attach_csv is true and some group of some block of the report holds a
\* term; the attachment then has one row per match of the report.  A report
\* whose groups are all empty, sent because skip_null is false, goes out
\* without attachment.
C5_AttachCsvOnlyWhenNotEmpty ==
    \A i \in 1..Len(mail_calls) :
        /\ mail_calls[i].files # <<>>
              <=> (specs.attach_csv /\ SomeGroupHasTerms(search_report))
        /\ mail_calls[i].files # <<>>
              => /\ Len(mail_calls[i].files) = 1
                 /\ Len(mail_calls[i].files[1].rows) = Len(MatchesOf(search_report))

\* C5 witness: send_email was called with the CSV attached.
C5_Witness ==
    /\ specs.attach_csv
    /\ Len(mail_calls) = 1
    /\ mail_calls[1].files # <<>>
    /\ eoutcome = "returned"

\* The columns C6 expects for the report.
ExpectedColumns(report) ==
    LET no_header == \A i \in 1..Len(report) : report[i].header = None
        ungrouped == \E i \in 1..Len(report) :
                         \E j \in 1..Len(report[i].result) :
                             report[i].result[j].k = SingleGroup
    IN (IF no_header THEN <<>> ELSE <<"Consulta">>)
       \o (IF ungrouped THEN <<>> ELSE <<"Grupo">>)
       \o <<"Termo de pesquisa", "Secao", "URL", "Titulo", "Resumo", "Data">>

\* C6: for every report convert_report_to_dataframe yields a frame with one
\* row per (block, group, term, match) in traversal order, without the
\* column Consulta iff no block has a header, without the column Grupo iff
\* some block's result has the key single_group, and with the other six
\* columns.
C6_DataframeOfEveryReport ==
    (epc \in {"send_email", "done"} /\ specs.attach_csv /\ ~skip_notification)
        => /\ csv_df.raised = None
           /\ csv_df.columns = ExpectedColumns(search_report)
           /\ Len(csv_df.rows) = Len(MatchesOf(search_report))
           /\ \A r \in 1..Len(csv_df.rows) :
                  /\ Len(csv_df.rows[r]) = Len(csv_df.columns)
                  /\ csv_df.rows[r][Len(csv_df.columns) - 3] = MatchesOf(search_report)[r].href

\* ------------------------------------------------------------------------
\* Claims about SlackSender
\* ------------------------------------------------------------------------
\* C3 (checked under SpecSlackCycles): the payload each send POSTs holds
\* exactly the blocks of that send's report, none of an earlier send.
C3_NoBlocksCarriedOver ==
    posted # <<>> => posted[Len(posted)].blocks = AddGroups(<<>>, slack_report)

\* The block sequence C7 expects.
ExpectedMatch(m) ==
    <<[type |-> "section", text |-> m.title, url |-> None],
      [type |-> "section", text |-> m.abstract, url |-> None],
      [type |-> "section", text |-> "Publicado em: 15/03/2023", url |-> m.href],
      [type |-> "divider", text |-> None, url |-> None]>>
ExpectedTerm(e) ==
    IF e.v = <<>> THEN <<>>
    ELSE <<[type |-> "header", text |-> "Termo: " \o e.k, url |-> None]>>
         \o Flatten([i \in 1..Len(e.v) |-> ExpectedMatch(e.v[i])])
ExpectedGroup(e) ==
    (IF e.k = "single_group" THEN <<>>
     ELSE <<[type |-> "header", text |-> "Grupo: " \o e.k, url |-> None]>>)
    \o Flatten([i \in 1..Len(e.v) |-> ExpectedTerm(e.v[i])])
ExpectedBlocks(report) ==
    Flatten([i \in 1..Len(report) |-> ExpectedGroup(report[i])])

\* C7 (checked under SpecSlack): a fresh sender POSTs, in map and list
\* order, one header per group other than single_group, and per term with
\* matches one header followed, per match, by three sections (title,
\* abstract, date caption with the button to the match's href) and a
\* divider; a term without matches contributes nothing.
C7_BlockSequence ==
    posted # <<>> => posted[1].blocks = ExpectedBlocks(slack_report)

\* C7 witness: two terms under single_group, one match each, were sent: two
\* term headers and two times three sections and a divider.
C7_Witness ==
    /\ Len(posted) = 1
    /\ Len(slack_report) = 1
    /\ slack_report[1].k = SingleGroup
    /\ Len(slack_report[1].v) = 2
    /\ \A t \in 1..2 : Len(slack_report[1].v[t].v) = 1
    /\ Len(posted[1].blocks) = 10

\* ------------------------------------------------------------------------
\* Claims about YAMLParser
\* ------------------------------------------------------------------------
\* The parts of an exception's message.
Parts(exc) == {exc.msg[i] : i \in 1..Len(exc.msg)}

\* The names of the mandatory fields and of `terms`.
FieldNames == {"dag", "id", "description", "report", "search", "terms", "sql", "conn_id"}

\* C8 (checked under SpecParse): when parse has failed with a configuration
\* error (the ValueError of an absent mandatory field or of a terms mapping
\* of neither kind), the message holds the name of the file and the name of
\* the field, and no configuration is returned.
C8_ConfigErrorNamesFileAndField ==
    (ppc = "done" /\ perror.type = "ValueError")
        => /\ "exemplo.yaml" \in Parts(perror)
           /\ Parts(perror) \cap FieldNames # {}
           /\ presult = NoConfig

\* The webhook C9 expects under the key of the report mapping: None when
\* the parent is absent or empty, the nested value otherwise.
ExpectedWebhook(report, key) ==
    IF key \notin DOMAIN report.d THEN YNone
    ELSE IF ~TruthyValue(report.d[key]) THEN YNone
    ELSE report.d[key].d["webhook"]

\* C9 (checked under SpecParse): when parse has ended, no exception came
\* from the extraction of the two webhooks, whatever the shape of
\* report.discord and report.slack, and a configuration that was returned
\* holds None for an absent or empty parent and the nested webhook
\* otherwise.
C9_WebhookExtractionNeverFails ==
    ppc = "done"
        => /\ perror.line \notin {119, 121}
           /\ perror = NoExc
                 => LET report == doc.d["dag"].d["report"]
                    IN /\ presult.discord_webhook = ExpectedWebhook(report, "discord")
                       /\ presult.slack_webhook = ExpectedWebhook(report, "slack")

\* The variable's value read as a literal list, and otherwise split into
\* its lines: what C10 expects of from_airflow_variable.
ListOrLines(var_value) ==
    LET lit == LiteralEval(var_value)
    IN IF lit.ok /\ lit.val.t = "list" THEN lit.val ELSE SplitLines(var_value)

\* C10 (checked under SpecTerms): for a search block that
\* _get_terms_params accepts, sql and conn_id are both set exactly when the
\* terms came from from_db_select, and terms is then the empty list;
\* otherwise both are None and terms is the literal list of the block, or
\* the list the variable's value denotes as a literal list, or else the
\* list of its lines.
C10_OneTermSource ==
    (tresult.raised = NoExc)
        => LET terms == tsearch.d["terms"]
               from_variable == terms.t = "dict" /\ "from_airflow_variable" \in DOMAIN terms.d
               from_db == terms.t = "dict" /\ ~from_variable
           IN /\ (tresult.sql # YNone /\ tresult.conn_id # YNone) <=> from_db
              /\ (tresult.sql = YNone /\ tresult.conn_id = YNone) <=> ~from_db
              /\ from_db => /\ tresult.terms = List(<<>>)
                            /\ tresult.sql = terms.d["from_db_select"].d["sql"]
                            /\ tresult.conn_id = terms.d["from_db_select"].d["conn_id"]
              /\ from_variable => tresult.terms = ListOrLines(tlookup.value)
              /\ terms.t = "list" => tresult.terms = terms

====
